---- MODULE Spec2Model ----
(***************************************************************************)
(* Model of detect_displays.py: the enumeration loop get_display_info,     *)
(* the helpers extract_display_id and get_orientation_name, the report     *)
(* printer print_display_report, main and the __main__ guard.              *)
(*                                                                         *)
(* A Python str is a sequence of one-character strings where the code      *)
(* looks inside it (split), and a sequence of tokens where the code only   *)
(* concatenates (f-strings): a token is a literal piece of the format or   *)
(* one character of data.  A printed line is such a sequence; stdout is    *)
(* the sequence of printed lines.  print(x + "\n") is two lines.           *)
(* Characters outside ASCII in the script's literals are written in ASCII. *)
(***************************************************************************)
EXTENDS Integers, Sequences, FiniteSets, TLC

VARIABLES
    pc,            \* position of the process
    pywin32,       \* whether the import at the top of the script succeeds
    devices,       \* what the OS answers to EnumDisplayDevices / EnumDisplaySettings
    device_num,    \* get_display_info: the device counter
    device,        \* get_display_info: the device returned by the last query
    displays,      \* get_display_info: the list being built; main: its result
    stdout,        \* the lines printed so far
    exit_status,   \* status the process ended with (-1 while running)
    interrupted,   \* whether a KeyboardInterrupt has been delivered
    report_calls,  \* number of calls of print_display_report
    queried,       \* the indices EnumDisplayDevices was called with, in order
    id_arg,        \* extract_display_id driven alone: its argument
    id_ret         \* extract_display_id driven alone: its result

vars == <<pc, pywin32, devices, device_num, device, displays, stdout,
          exit_status, interrupted, report_calls, queried, id_arg, id_ret>>

----------------------------------------------------------------------------
(* Bounds of the model *)

MaxLen == 4
MaxDevices == 3
MaxDisplays == 2

(* win32con *)
DISPLAY_DEVICE_ATTACHED_TO_DESKTOP == 1
DISPLAY_DEVICE_PRIMARY_DEVICE == 4

----------------------------------------------------------------------------
(* Python values *)

PyNone == [type |-> "NoneType"]
PyStr(s) == [type |-> "str", val |-> s]

Chars == {"#", "\\", "a", "b"}
StringsUpTo(n) == UNION {[1..k -> Chars] : k \in 0..n}

\* flags & bit, for a bit that is a power of two
BitAnd(flags, bit) == ((flags \div bit) % 2) * bit

\* str.split(sep) for a one-character separator: always at least one part
RECURSIVE Split(_, _)
Split(s, sep) ==
    IF \A i \in 1..Len(s) : s[i] # sep
    THEN <<s>>
    ELSE LET i == CHOOSE j \in 1..Len(s) :
                      s[j] = sep /\ \A k \in 1..(j - 1) : s[k] # sep
         IN <<SubSeq(s, 1, i - 1)>> \o Split(SubSeq(s, i + 1, Len(s)), sep)

UNKNOWN == <<"U", "N", "K", "N", "O", "W", "N">>

\* extract_display_id with parts[0] and parts[1] taken instead of parts[1] and parts[2]
extract_display_id_shifted(device_id) ==
    IF device_id.type # "str"
    THEN UNKNOWN
    ELSE LET parts == Split(device_id.val, "#")
         IN IF Len(parts) >= 3
            THEN parts[1] \o <<"_">> \o parts[2]
            ELSE LET segs == Split(device_id.val, "\\") IN segs[Len(segs)]

\* extract_display_id: None has no split, the AttributeError is caught by the
\* bare except; parts[1], parts[2] of Python are parts[2], parts[3] here
extract_display_id(device_id) ==
    IF device_id.type # "str"
    THEN UNKNOWN
    ELSE LET parts == Split(device_id.val, "#")
         IN IF Len(parts) >= 3
            THEN parts[2] \o <<"_">> \o parts[3]
            ELSE LET segs == Split(device_id.val, "\\") IN segs[Len(segs)]

----------------------------------------------------------------------------
(* What the OS holds.  devices[i + 1] is the answer to EnumDisplayDevices   *)
(* (None, i): nothing, an error, or a PyDISPLAY_DEVICE; past the end of the *)
(* list the call raises.  A device carries the PyDEVMODE that               *)
(* EnumDisplaySettings returns for it, and whether that call succeeds.      *)

Geometries ==
    { [PelsWidth |-> 1920, PelsHeight |-> 1080, Position_x |-> 0, Position_y |-> 0],
      [PelsWidth |-> 1080, PelsHeight |-> 1920, Position_x |-> 1920, Position_y |-> 0],
      [PelsWidth |-> 500, PelsHeight |-> 500, Position_x |-> -500, Position_y |-> 0] }

Rotations == {0, 1, 2, 3, 99}

\* two monitors of one model on different ports, and one without '#'
DeviceIDs ==
    { <<"a", "#", "b", "#", "a", "#", "a">>,
      <<"a", "#", "b", "#", "a", "#", "b">>,
      <<"a", "\\", "b">> }

MonitorName(id) ==
    IF Len(Split(id, "#")) >= 3 THEN <<"Generic PnP Monitor">> ELSE <<"Default Monitor">>

Settings(g, rot) ==
    [PelsWidth |-> g.PelsWidth, PelsHeight |-> g.PelsHeight,
     Position_x |-> g.Position_x, Position_y |-> g.Position_y,
     DisplayFrequency |-> 60, BitsPerPel |-> 32, DisplayOrientation |-> rot]

\* the i-th device of the OS list (i from 0); the primary display is the one at (0, 0)
Device(i, id, attached, g) ==
    [DeviceName |-> <<"\\\\.\\DISPLAY", ToString(i + 1)>>,
     DeviceString |-> MonitorName(id),
     DeviceID |-> PyStr(id),
     DeviceKey |-> <<"\\Registry\\Machine\\System\\CurrentControlSet\\Control\\Video\\">>
                       \o id,
     StateFlags |-> (IF attached THEN DISPLAY_DEVICE_ATTACHED_TO_DESKTOP ELSE 0)
                    + (IF g.Position_x = 0 /\ g.Position_y = 0
                       THEN DISPLAY_DEVICE_PRIMARY_DEVICE ELSE 0)]

Slot(i, id, attached, g, rot, readable) ==
    [kind |-> "device", dev |-> Device(i, id, attached, g),
     settings |-> Settings(g, rot), readable |-> readable]

NoSlot(kind) ==
    [kind |-> kind, dev |-> PyNone, settings |-> PyNone, readable |-> FALSE]

\* EnumDisplayDevices(None, n)
EnumDisplayDevices(n) ==
    IF n + 1 > Len(devices) THEN NoSlot("raise") ELSE devices[n + 1]

----------------------------------------------------------------------------
(* get_display_info *)

\* the dict built from a device and its settings
display_info(n, dev, settings) ==
    [index |-> n,
     device_name |-> dev.DeviceName,
     device_string |-> dev.DeviceString,
     device_id |-> dev.DeviceID,
     device_key |-> dev.DeviceKey,
     width |-> settings.PelsWidth,
     height |-> settings.PelsHeight,
     position_x |-> settings.Position_x,
     position_y |-> settings.Position_y,
     frequency |-> settings.DisplayFrequency,
     bits_per_pixel |-> settings.BitsPerPel,
     orientation |-> settings.DisplayOrientation,
     is_primary |-> BitAnd(dev.StateFlags, DISPLAY_DEVICE_PRIMARY_DEVICE) # 0,
     state_flags |-> dev.StateFlags]

\* the filter with the test of the flag left out
IsAttachedAlways(dev) == TRUE

\* device.StateFlags & win32con.DISPLAY_DEVICE_ATTACHED_TO_DESKTOP
IsAttached(dev) == BitAnd(dev.StateFlags, DISPLAY_DEVICE_ATTACHED_TO_DESKTOP) # 0

----------------------------------------------------------------------------
(* get_orientation_name and print_display_report *)

\* RULE80 is "=" * 80, RULE78 the 78 box-drawing dashes between two box
\* corners (written + here), SPACESn a run of n spaces
Blank == <<>>
Rule80 == <<"RULE80">>
BoxTop == <<"+", "RULE78", "+">>
BoxBottom == <<"+", "RULE78", "+">>
ConfigOpen == <<"const DISPLAY_VIDEO_CONFIG = {">>
ConfigClose == <<"};">>

get_orientation_name(orientation) ==
    CASE orientation = 0 -> <<"Landscape (0 deg)">>
      [] orientation = 1 -> <<"Portrait (90 deg)">>
      [] orientation = 2 -> <<"Landscape Flipped (180 deg)">>
      [] orientation = 3 -> <<"Portrait Flipped (270 deg)">>
      [] OTHER -> <<"Unknown (", ToString(orientation), " deg)">>

\* the classification of the detail block taken from the rotation code
DetailOrientationByRotation(display) ==
    IF display.orientation \in {0, 2} THEN "Landscape" ELSE "Portrait"

\* lines 103-104
DetailOrientation(display) ==
    IF display.width > display.height THEN "Landscape"
    ELSE IF display.width < display.height THEN "Portrait" ELSE "Square"

\* lines 136-137
FolderOrientation(display) ==
    IF display.width > display.height THEN "landscape"
    ELSE IF display.width < display.height THEN "portrait" ELSE "square"

\* lines 153-154
ConfigOrientation(display) ==
    IF display.width > display.height THEN "landscape"
    ELSE IF display.width < display.height THEN "portrait" ELSE "square"

\* f"{primary_text:<70}": left-justified in 70 columns
PrimaryText(display) ==
    IF display.is_primary THEN <<" (PRIMARY)", "SPACES60">> ELSE <<"SPACES70">>

Resolution(display) == <<ToString(display.width), "x", ToString(display.height)>>

\* a str() of the device id as an f-string prints it
Shown(v) == IF v.type = "str" THEN v.val ELSE <<"None">>

DetailBlock(display) ==
    << BoxTop,
       <<"| Display ", ToString(display.index)>> \o PrimaryText(display) \o <<"|">>,
       BoxBottom,
       <<"  Monitor Name:       ">> \o display.device_string,
       <<"  Device Name:        ">> \o display.device_name,
       <<"  Simple ID:          ">> \o extract_display_id(display.device_id),
       <<"  Resolution:         ">> \o Resolution(display),
       <<"  Orientation:        ", DetailOrientation(display), " (">>
           \o get_orientation_name(display.orientation) \o <<")">>,
       <<"  Position:           x:", ToString(display.position_x),
         ", y:", ToString(display.position_y)>>,
       <<"  Refresh Rate:       ", ToString(display.frequency), " Hz">>,
       <<"  Color Depth:        ", ToString(display.bits_per_pixel), "-bit">>,
       <<"  Primary Display:    ", IF display.is_primary THEN "Yes" ELSE "No">>,
       Blank,
       <<"  Full Device ID:">>,
       <<"    ">> \o Shown(display.device_id),
       Blank,
       <<"  Registry Key:">>,
       <<"    ">> \o display.device_key,
       Blank >>

FolderBlock(display) ==
    << <<"Display ", ToString(display.index), ": ">> \o display.device_string
           \o <<" (">> \o Resolution(display)
           \o <<" ", FolderOrientation(display), ")">>,
       <<"  C:\\">> \o extract_display_id(display.device_id)
           \o <<"_default", "\\video.mp4">>,
       <<"  C:\\">> \o extract_display_id(display.device_id)
           \o <<"_trigger", "\\video.mp4">>,
       Blank >>

ConfigBlock(display) ==
    << <<"  // ">> \o display.device_string \o <<" (">> \o Resolution(display)
           \o <<" ", ConfigOrientation(display), ")">>,
       <<"  '">> \o extract_display_id(display.device_id)
           \o <<"': 'your_custom_name',">>,
       Blank >>

\* for display in displays (line 101), from the i-th display on
RECURSIVE DetailLoop(_, _)
DetailLoop(ds, i) ==
    IF i > Len(ds) THEN <<>> ELSE DetailBlock(ds[i]) \o DetailLoop(ds, i + 1)

\* for display in displays (line 134), from the i-th display on
RECURSIVE FolderLoop(_, _)
FolderLoop(ds, i) ==
    IF i > Len(ds) THEN <<>> ELSE FolderBlock(ds[i]) \o FolderLoop(ds, i + 1)

\* for display in displays (line 151), from the i-th display on
RECURSIVE ConfigLoop(_, _)
ConfigLoop(ds, i) ==
    IF i > Len(ds) THEN <<>> ELSE ConfigBlock(ds[i]) \o ConfigLoop(ds, i + 1)

Entry(key) == <<"  '">> \o key \o <<"': 'folder_name',">>

\* Option 1 as a mapping would hold it: a key already printed is not printed again
Option1Deduplicated(ds) ==
    LET keep == SelectSeq([i \in 1..Len(ds) |-> i],
                    LAMBDA i : \A j \in 1..(i - 1) :
                        extract_display_id(ds[j].device_id)
                            # extract_display_id(ds[i].device_id))
    IN [k \in 1..Len(keep) |-> Entry(extract_display_id(ds[keep[k]].device_id))]

\* lines 167-169
Option1(ds) ==
    [i \in 1..Len(ds) |-> Entry(extract_display_id(ds[i].device_id))]

\* Option 2 printed last display first
Option2Reversed(ds) ==
    [i \in 1..Len(ds) |-> Entry(Resolution(ds[Len(ds) + 1 - i]))]

\* lines 174-175
Option2(ds) == [i \in 1..Len(ds) |-> Entry(Resolution(ds[i]))]

\* lines 180-181
Option3(ds) ==
    [i \in 1..Len(ds) |->
        Entry(<<"x", ToString(ds[i].position_x), "_y", ToString(ds[i].position_y)>>)]

\* lines 186-187
Option4(ds) == [i \in 1..Len(ds) |-> Entry(ds[i].device_string)]

print_display_report(ds) ==
    << Blank, Rule80, <<"SPACES25", "DISPLAY DETECTION REPORT">>, Rule80, Blank,
       <<"Total Displays Found: ", ToString(Len(ds))>>, Blank >>
    \o DetailLoop(ds, 1)
    \o << Rule80, <<"SPACES25", "FOLDER NAME SUGGESTIONS">>, Rule80, Blank,
          <<"Create these folders in C:\\ for your videos:">>, Blank >>
    \o FolderLoop(ds, 1)
    \o << Rule80, <<"SPACES22", "CONFIGURATION FOR main.js">>, Rule80, Blank,
          <<"Add this to DISPLAY_VIDEO_CONFIG in main.js:">>, Blank,
          ConfigOpen >>
    \o ConfigLoop(ds, 1)
    \o << ConfigClose, Blank,
          Rule80, <<"SPACES20", "ALTERNATIVE IDENTIFICATION METHODS">>, Rule80, Blank,
          <<"Option 1: By Simple ID (Extracted from Device ID)">>, ConfigOpen >>
    \o Option1(ds)
    \o << ConfigClose, Blank, <<"Option 2: By Resolution">>, ConfigOpen >>
    \o Option2(ds)
    \o << ConfigClose, Blank, <<"Option 3: By Position">>, ConfigOpen >>
    \o Option3(ds)
    \o << ConfigClose, Blank,
          <<"Option 4: By Monitor Name (only if different)">>, ConfigOpen >>
    \o Option4(ds)
    \o << ConfigClose, Blank, Rule80, Blank >>

----------------------------------------------------------------------------
(* The process: the import at the top, main, get_display_info statement by  *)
(* statement, and the __main__ guard.  Nothing in main raises an Exception  *)
(* other than KeyboardInterrupt on the values the OS returns, so the        *)
(* handler of lines 218-222 has no action.                                  *)

\* EnumDisplaySettings(device.DeviceName, ENUM_CURRENT_SETTINGS)
EnumDisplaySettings(name) ==
    LET i == CHOOSE j \in 1..Len(devices) :
                 devices[j].kind = "device" /\ devices[j].dev.DeviceName = name
    IN devices[i]

ImportErrorLines ==
    << <<"ERROR: pywin32 is not installed!">>, Blank, <<"To install, run:">>,
       <<"  pip install pywin32">>, Blank, <<"Or:">>,
       <<"  python -m pip install pywin32">> >>
DetectingLines == << Blank, <<"Detecting connected displays...">> >>
NoDisplaysLines ==
    << Blank, <<"ERROR: No displays detected!">>,
       <<"Make sure your monitors are connected and turned on.">> >>
FoundLine(ds) == <<"Found ", ToString(Len(ds)), " display(s)">>
CompleteLines ==
    << <<"Detection complete!">>, Blank,
       <<"TIP: Use the Simple ID or Resolution for your folder names">>,
       <<"   The Simple ID is stable and unique for each monitor.">>, Blank >>
CancelledLines == << Blank, Blank, <<"Detection cancelled by user.">> >>

MainSlots(i) ==
    LET id == <<"a", "#", "b", "#", "a", "#", "a">>
        g1 == [PelsWidth |-> 1920, PelsHeight |-> 1080, Position_x |-> 0, Position_y |-> 0]
        g2 == [PelsWidth |-> 1080, PelsHeight |-> 1920, Position_x |-> 1920, Position_y |-> 0]
    IN { NoSlot("none"), NoSlot("raise"),
         Slot(i, id, FALSE, g2, 0, TRUE),
         Slot(i, id, TRUE, g2, 1, FALSE),
         Slot(i, id, TRUE, g1, 0, TRUE),
         Slot(i, id, TRUE, g2, 1, TRUE) }

RECURSIVE DeviceLists(_)
DeviceLists(n) ==
    IF n = 0 THEN {<<>>}
    ELSE {Append(s, x) : s \in DeviceLists(n - 1), x \in MainSlots(n - 1)}

Init ==
    /\ pc = "import"
    /\ pywin32 \in BOOLEAN
    /\ devices \in UNION {DeviceLists(n) : n \in 0..MaxDevices}
    /\ device_num = 0
    /\ device = PyNone
    /\ displays = <<>>
    /\ stdout = <<>>
    /\ exit_status = -1
    /\ interrupted = FALSE
    /\ report_calls = 0
    /\ queried = <<>>
    /\ id_arg = PyNone
    /\ id_ret = <<>>

\* lines 9-12
ImportOk ==
    /\ pc = "import"
    /\ pywin32
    /\ pc' = "main"
    /\ UNCHANGED <<pywin32, devices, device_num, device, displays, stdout,
                   exit_status, interrupted, report_calls, queried, id_arg, id_ret>>

\* lines 13-19
ImportError ==
    /\ pc = "import"
    /\ ~pywin32
    /\ stdout' = stdout \o ImportErrorLines
    /\ exit_status' = 1
    /\ pc' = "exited"
    /\ UNCHANGED <<pywin32, devices, device_num, device, displays,
                   interrupted, report_calls, queried, id_arg, id_ret>>

\* lines 194-196 and 24-27: main up to the loop of get_display_info
MainStart ==
    /\ pc = "main"
    /\ stdout' = stdout \o DetectingLines
    /\ displays' = <<>>
    /\ device_num' = 0
    /\ pc' = "query"
    /\ UNCHANGED <<pywin32, devices, device, exit_status, interrupted,
                   report_calls, queried, id_arg, id_ret>>

\* lines 30-32, and 62-63 when the call raises
Query ==
    /\ pc = "query"
    /\ queried' = Append(queried, device_num)
    /\ LET r == EnumDisplayDevices(device_num)
       IN IF r.kind = "device"
          THEN device' = r.dev /\ pc' = "attached"
          ELSE device' = device /\ pc' = "return"
    /\ UNCHANGED <<pywin32, devices, device_num, displays, stdout, exit_status,
                   interrupted, report_calls, id_arg, id_ret>>

\* line 35
CheckAttached ==
    /\ pc = "attached"
    /\ pc' = IF IsAttached(device) THEN "settings" ELSE "incr"
    /\ UNCHANGED <<pywin32, devices, device_num, device, displays, stdout,
                   exit_status, interrupted, report_calls, queried, id_arg, id_ret>>

\* a failed read of the settings ends the enumeration
ReadSettingsAbortOnFailure ==
    /\ pc = "settings"
    /\ LET r == EnumDisplaySettings(device.DeviceName)
       IN IF r.readable
          THEN /\ displays' = Append(displays, display_info(device_num, device, r.settings))
               /\ pc' = "incr"
          ELSE /\ displays' = displays
               /\ pc' = "return"
    /\ UNCHANGED <<pywin32, devices, device_num, device, stdout, exit_status,
                   interrupted, report_calls, queried, id_arg, id_ret>>

\* lines 37-59
ReadSettings ==
    /\ pc = "settings"
    /\ LET r == EnumDisplaySettings(device.DeviceName)
       IN IF r.readable
          THEN displays' = Append(displays, display_info(device_num, device, r.settings))
          ELSE displays' = displays
    /\ pc' = "incr"
    /\ UNCHANGED <<pywin32, devices, device_num, device, stdout, exit_status,
                   interrupted, report_calls, queried, id_arg, id_ret>>

\* the counter advances only past a device that is attached
IncrementIfAttached ==
    /\ pc = "incr"
    /\ device_num' = IF IsAttached(device) THEN device_num + 1 ELSE device_num
    /\ pc' = "query"
    /\ UNCHANGED <<pywin32, devices, device, displays, stdout, exit_status,
                   interrupted, report_calls, queried, id_arg, id_ret>>

\* line 61
Increment ==
    /\ pc = "incr"
    /\ device_num' = device_num + 1
    /\ pc' = "query"
    /\ UNCHANGED <<pywin32, devices, device, displays, stdout, exit_status,
                   interrupted, report_calls, queried, id_arg, id_ret>>

\* lines 65 and 196: the list goes back to main
Return ==
    /\ pc = "return"
    /\ pc' = "check"
    /\ UNCHANGED <<pywin32, devices, device_num, device, displays, stdout,
                   exit_status, interrupted, report_calls, queried, id_arg, id_ret>>

\* main without the exit on an empty list
CheckEmptyNoExit ==
    /\ pc = "check"
    /\ stdout' = stdout \o (IF displays = <<>> THEN NoDisplaysLines ELSE <<>>)
                        \o <<FoundLine(displays)>>
    /\ pc' = "report"
    /\ UNCHANGED <<pywin32, devices, device_num, device, displays, exit_status,
                   interrupted, report_calls, queried, id_arg, id_ret>>

\* lines 198-203
CheckEmpty ==
    /\ pc = "check"
    /\ IF displays = <<>>
       THEN /\ stdout' = stdout \o NoDisplaysLines
            /\ exit_status' = 1
            /\ pc' = "exited"
       ELSE /\ stdout' = Append(stdout, FoundLine(displays))
            /\ exit_status' = exit_status
            /\ pc' = "report"
    /\ UNCHANGED <<pywin32, devices, device_num, device, displays,
                   interrupted, report_calls, queried, id_arg, id_ret>>

\* line 205
Report ==
    /\ pc = "report"
    /\ stdout' = stdout \o print_display_report(displays)
    /\ report_calls' = report_calls + 1
    /\ pc' = "epilogue"
    /\ UNCHANGED <<pywin32, devices, device_num, device, displays, exit_status,
                   interrupted, queried, id_arg, id_ret>>

\* lines 207-209, and the end of the script
Epilogue ==
    /\ pc = "epilogue"
    /\ stdout' = stdout \o CompleteLines
    /\ exit_status' = 0
    /\ pc' = "exited"
    /\ UNCHANGED <<pywin32, devices, device_num, device, displays,
                   interrupted, report_calls, queried, id_arg, id_ret>>

\* A KeyboardInterrupt raised at the statement the process is about to run.
\* Inside the inner try (lines 37-57) the bare except of line 58 catches it
\* and the loop goes on; elsewhere inside the outer try (lines 29-61) the
\* bare except of line 62 catches it and the loop ends; anywhere else in
\* main it reaches the handler of lines 215-217.
KeyboardInterrupt ==
    /\ pc \in {"main", "query", "attached", "settings", "incr", "return",
               "check", "report", "epilogue"}
    /\ interrupted' = TRUE
    /\ IF pc = "settings"
       THEN pc' = "incr" /\ UNCHANGED <<stdout, exit_status>>
       ELSE IF pc \in {"query", "attached", "incr"}
       THEN pc' = "return" /\ UNCHANGED <<stdout, exit_status>>
       ELSE /\ stdout' = stdout \o CancelledLines
            /\ exit_status' = 0
            /\ pc' = "exited"
    /\ UNCHANGED <<pywin32, devices, device_num, device, displays,
                   report_calls, queried, id_arg, id_ret>>

Next ==
    \/ ImportOk
    \/ ImportError
    \/ MainStart
    \/ Query
    \/ CheckAttached
    \/ ReadSettings
    \/ Increment
    \/ Return
    \/ CheckEmpty
    \/ Report
    \/ Epilogue
    \/ KeyboardInterrupt

Spec == Init /\ [][Next]_vars

\* the script runs statement after statement until the process has ended
LiveSpec == Spec /\ WF_vars(Next)

----------------------------------------------------------------------------
(* print_display_report on every list of up to MaxDisplays records that    *)
(* get_display_info can return, from the point where main calls it.        *)

ReportDisplay(i, id, g, rot) ==
    display_info(i, Device(i, id, TRUE, g), Settings(g, rot))

\* every geometry under every rotation code, and every device id
DisplayChoices ==
    {<<id, g, rot>> : id \in {<<"a", "#", "b", "#", "a", "#", "a">>},
                      g \in Geometries, rot \in Rotations}
    \cup {<<id, g, 0>> : id \in DeviceIDs,
                         g \in {h \in Geometries : h.PelsWidth > h.PelsHeight}}

RECURSIVE DisplayLists(_, _)
DisplayLists(n, gap) ==
    IF n = 0 THEN {<<>>}
    ELSE {Append(s, ReportDisplay(n - 1 + gap, c[1], c[2], c[3])) :
              s \in DisplayLists(n - 1, gap), c \in DisplayChoices}

InitReport ==
    /\ pc = "report"
    /\ pywin32 = TRUE
    /\ devices = <<>>
    /\ device_num = 0
    /\ device = PyNone
    /\ displays \in UNION {DisplayLists(n, gap) : n \in 1..MaxDisplays, gap \in {0, 1}}
    /\ stdout = DetectingLines \o <<FoundLine(displays)>>
    /\ exit_status = -1
    /\ interrupted = FALSE
    /\ report_calls = 0
    /\ queried = <<>>
    /\ id_arg = PyNone
    /\ id_ret = <<>>

NextReport ==
    \/ Report
    \/ Epilogue

SpecReport == InitReport /\ [][NextReport]_vars

----------------------------------------------------------------------------
(* extract_display_id driven alone, on every str up to MaxLen and on None *)

InitId ==
    /\ pc = "id_call"
    /\ id_arg \in {PyNone} \cup {PyStr(s) : s \in StringsUpTo(MaxLen)}
    /\ id_ret = <<>>
    /\ pywin32 = TRUE
    /\ devices = <<>>
    /\ device_num = 0
    /\ device = PyNone
    /\ displays = <<>>
    /\ stdout = <<>>
    /\ exit_status = -1
    /\ interrupted = FALSE
    /\ report_calls = 0
    /\ queried = <<>>

CallExtractDisplayId ==
    /\ pc = "id_call"
    /\ id_ret' = extract_display_id(id_arg)
    /\ pc' = "id_done"
    /\ UNCHANGED <<pywin32, devices, device_num, device, displays, stdout,
                   exit_status, interrupted, report_calls, queried, id_arg>>

NextId == CallExtractDisplayId

SpecId == InitId /\ [][NextId]_vars

----------------------------------------------------------------------------
(* Claims about extract_display_id *)

HashPositions(s) == {i \in 1..Len(s) : s[i] = "#"}
NthHash(s, n) ==
    CHOOSE i \in HashPositions(s) :
        Cardinality({j \in HashPositions(s) : j < i}) = n - 1
AfterLastBackslash(s) ==
    LET bs == {i \in 1..Len(s) : s[i] = "\\"}
    IN IF bs = {} THEN s
       ELSE SubSeq(s, (CHOOSE i \in bs : \A j \in bs : j <= i) + 1, Len(s))

\* C5: for every str device_id with at least two '#' (three parts) the result
\* is the text between the 1st and 2nd '#', then "_", then the text between
\* the 2nd '#' and the 3rd '#' (or the end); with fewer '#' it is the text
\* after the last backslash, the whole string when there is none.
C5_ExtractSplits ==
    (pc = "id_done" /\ id_arg.type = "str") =>
        LET s == id_arg.val
            n == Cardinality(HashPositions(s))
        IN IF n >= 2
           THEN LET p1 == NthHash(s, 1)
                    p2 == NthHash(s, 2)
                    p3 == IF n >= 3 THEN NthHash(s, 3) ELSE Len(s) + 1
                IN id_ret = SubSeq(s, p1 + 1, p2 - 1) \o <<"_">>
                                \o SubSeq(s, p2 + 1, p3 - 1)
           ELSE id_ret = AfterLastBackslash(s)

\* a str with four parts (the 4th is ignored) has been converted
C5_Witness ==
    /\ pc = "id_done"
    /\ id_arg = PyStr(<<"#", "a", "#", "#">>)
    /\ id_ret = <<"a", "_">>

C5_WitnessFallback ==
    /\ pc = "id_done"
    /\ id_arg = PyStr(<<"a", "\\", "b">>)
    /\ id_ret = <<"b">>

\* C6: for device_id None or the empty string the result is "UNKNOWN".
C6_NoneOrEmptyIsUnknown ==
    (pc = "id_done" /\ (id_arg = PyNone \/ id_arg = PyStr(<<>>))) =>
        id_ret = UNKNOWN

----------------------------------------------------------------------------
(* Claims about main and get_display_info *)

\* the first index at which EnumDisplayDevices returns nothing or raises
StopIndex ==
    CHOOSE k \in 0..Len(devices) :
        /\ EnumDisplayDevices(k).kind # "device"
        /\ \A i \in 0..(k - 1) : EnumDisplayDevices(i).kind = "device"

\* the indices below the stop index of attached devices whose settings can be read
Readable ==
    {i \in 0..(StopIndex - 1) :
        /\ BitAnd(devices[i + 1].dev.StateFlags, 1) = 1
        /\ devices[i + 1].readable}

Returned == pywin32 /\ pc \in {"return", "check", "report", "epilogue", "exited"}

\* C1: in a run of main that no interrupt cuts short, an empty result of
\* get_display_info ends the process with the no-displays error and status 1
\* and print_display_report is never called; a non-empty result prints the
\* found-count line, calls print_display_report exactly once, prints the
\* completion lines after the report and ends with status 0.
C1_MainOutcome ==
    /\ report_calls <= 1
    /\ (report_calls = 1 => displays # <<>> /\ pc \in {"epilogue", "exited"})
    /\ (pywin32 /\ pc = "exited" /\ ~interrupted) =>
          IF displays = <<>>
          THEN /\ exit_status = 1
               /\ report_calls = 0
               /\ stdout = DetectingLines \o NoDisplaysLines
          ELSE /\ exit_status = 0
               /\ report_calls = 1
               /\ stdout = DetectingLines \o <<FoundLine(displays)>>
                               \o print_display_report(displays) \o CompleteLines

C1_Witness ==
    /\ pc = "exited"
    /\ ~interrupted
    /\ Len(displays) = 2
    /\ report_calls = 1
    /\ exit_status = 0

C1_WitnessEmpty ==
    /\ pywin32
    /\ pc = "exited"
    /\ ~interrupted
    /\ displays = <<>>
    /\ Len(devices) > 0
    /\ exit_status = 1

\* C2: a run in which a KeyboardInterrupt was delivered during main ends with
\* the cancellation notice as its last output and with status 0.
C2_InterruptCancels ==
    (pc = "exited" /\ interrupted) =>
        /\ exit_status = 0
        /\ Len(stdout) >= 3
        /\ SubSeq(stdout, Len(stdout) - 2, Len(stdout)) = CancelledLines

\* C3: without an interrupt, the list get_display_info returns holds exactly
\* one record for each attached device below the stop index whose settings
\* read succeeded, and none for any other device: a failed read leaves out
\* that display alone.
C3_SkipsOnlyUnreadable ==
    (Returned /\ ~interrupted) =>
        /\ Len(displays) = Cardinality(Readable)
        /\ \A i \in Readable : \E n \in 1..Len(displays) :
               /\ displays[n].index = i
               /\ displays[n].device_name = devices[i + 1].dev.DeviceName
        /\ \A n \in 1..Len(displays) : displays[n].index \in Readable

\* a display whose read failed is followed by one that was recorded
C3_Witness ==
    /\ Returned
    /\ ~interrupted
    /\ \E i \in 0..(StopIndex - 1) : \E n \in 1..Len(displays) :
           /\ BitAnd(devices[i + 1].dev.StateFlags, 1) = 1
           /\ ~devices[i + 1].readable
           /\ displays[n].index > i

\* C4: at every point the indices of the collected records are strictly
\* increasing, each record carries the fields of the device at its index,
\* and that device has the attached-to-desktop bit set.
C4_RecordsOrderedAttached ==
    pywin32 =>
        /\ \A m, n \in 1..Len(displays) : m < n => displays[m].index < displays[n].index
        /\ \A n \in 1..Len(displays) :
               LET i == displays[n].index
               IN /\ i + 1 \in 1..Len(devices)
                  /\ devices[i + 1].kind = "device"
                  /\ displays[n].device_name = devices[i + 1].dev.DeviceName
                  /\ displays[n].device_id = devices[i + 1].dev.DeviceID
                  /\ displays[n].state_flags = devices[i + 1].dev.StateFlags
                  /\ displays[n].width = devices[i + 1].settings.PelsWidth
                  /\ displays[n].state_flags % 2 = 1

\* two displays collected, with an unattached device among those queried
C4_Witness ==
    /\ Len(displays) = 2
    /\ pc = "query"
    /\ \E i \in 1..device_num : devices[i].dev.StateFlags % 2 = 0

C10_Inv ==
    /\ queried = [i \in 1..Len(queried) |-> i - 1]
    /\ \A i \in 1..Len(queried) : queried[i] <= StopIndex
    /\ (pc \in {"query", "attached", "settings", "incr"}) =>
           device_num = Len(queried) - (IF pc = "query" THEN 0 ELSE 1)
    /\ (Returned /\ ~interrupted) =>
           /\ Len(queried) = StopIndex + 1
           /\ \A n \in 1..Len(displays) : displays[n].index < StopIndex
           /\ Len(displays) = Cardinality(Readable)

\* the number of statements the process can still run, at most
Variant ==
    CASE pc = "import" -> 4 * (Len(devices) + 1) + 10
      [] pc = "main" -> 4 * (Len(devices) + 1) + 9
      [] pc = "query" -> 4 * (Len(devices) - device_num) + 8
      [] pc = "attached" -> 4 * (Len(devices) - device_num) + 7
      [] pc = "settings" -> 4 * (Len(devices) - device_num) + 6
      [] pc = "incr" -> 4 * (Len(devices) - device_num) + 5
      [] pc = "return" -> 4
      [] pc = "check" -> 3
      [] pc = "report" -> 2
      [] pc = "epilogue" -> 1
      [] OTHER -> 0

\* the process is not stuck (Report has no guard but its position)
CanStep == pc = "report" \/ ENABLED Next

\* C10: get_display_info terminates (every step lowers a bound on the steps
\* left, and the process can step until it has ended); the indices queried
\* are 0, 1, 2, ... one after the other whatever each device was, none beyond
\* the first index k at which the query returns nothing or raises; without an
\* interrupt the loop ends at k and the list returned holds the records
\* collected below k.
C10_EnumerationTerminates ==
    /\ []C10_Inv
    /\ [](Variant >= 0 /\ (pc = "exited" \/ CanStep))
    /\ [][Variant' < Variant]_vars

\* the same, as a liveness property of the fair specification
C10_Eventually == <>(pc = "exited")

\* the enumeration stopped before the end of the list, with a record kept
C10_Witness ==
    /\ pc = "exited"
    /\ ~interrupted
    /\ StopIndex < Len(devices)
    /\ StopIndex > 1
    /\ displays # <<>>

----------------------------------------------------------------------------
(* Claims about print_display_report, read off the printed lines *)

\* the first position from `from` on at which `lines` holds the line l, 0 if none
FirstAt(lines, l, from) ==
    IF \E i \in from..Len(lines) : lines[i] = l
    THEN CHOOSE i \in from..Len(lines) :
             lines[i] = l /\ \A j \in from..(i - 1) : lines[j] # l
    ELSE 0

\* the lines that follow `header` and `skip` more lines, up to the line `close`
BlockAfter(lines, header, skip, close) ==
    LET h == FirstAt(lines, header, 1)
        c == FirstAt(lines, close, h + skip + 1)
    IN IF h = 0 \/ c = 0 THEN <<>> ELSE SubSeq(lines, h + skip + 1, c - 1)

DetailLines ==
    BlockAfter(stdout, <<"Total Displays Found: ", ToString(Len(displays))>>, 1, Rule80)
FolderLines ==
    BlockAfter(stdout, <<"Create these folders in C:\\ for your videos:">>, 1, Rule80)
ConfigLines ==
    BlockAfter(stdout, <<"Add this to DISPLAY_VIDEO_CONFIG in main.js:">>, 2, ConfigClose)
Option1Lines ==
    BlockAfter(stdout, <<"Option 1: By Simple ID (Extracted from Device ID)">>, 1, ConfigClose)
Option2Lines == BlockAfter(stdout, <<"Option 2: By Resolution">>, 1, ConfigClose)
Option3Lines == BlockAfter(stdout, <<"Option 3: By Position">>, 1, ConfigClose)
Option4Lines ==
    BlockAfter(stdout, <<"Option 4: By Monitor Name (only if different)">>, 1, ConfigClose)

SimpleId(i) == extract_display_id(displays[i].device_id)
KeyLine(key, value) == <<"  '">> \o key \o <<"': '" \o value \o "',">>
IsPrefix(p, line) == Len(line) >= Len(p) /\ SubSeq(line, 1, Len(p)) = p

\* C7: once the report is printed, the folder suggestions hold for the i-th
\* display, in order, one heading, the path on its SimpleId with _default,
\* the path with _trigger and a blank line; the configuration snippet holds
\* its key line on the SimpleId; and the four alternative blocks hold exactly
\* one entry per display, in order, keyed by SimpleId, "<width>x<height>",
\* "x<position_x>_y<position_y>" and device_string, equal keys included.
C7_BlocksComplete ==
    (report_calls = 1) =>
        LET n == Len(displays) IN
        /\ Len(FolderLines) = 4 * n
        /\ \A i \in 1..n :
               /\ IsPrefix(<<"Display ", ToString(displays[i].index), ": ">>,
                           FolderLines[4 * i - 3])
               /\ FolderLines[4 * i - 2]
                      = <<"  C:\\">> \o SimpleId(i) \o <<"_default", "\\video.mp4">>
               /\ FolderLines[4 * i - 1]
                      = <<"  C:\\">> \o SimpleId(i) \o <<"_trigger", "\\video.mp4">>
               /\ FolderLines[4 * i] = <<>>
        /\ Len(ConfigLines) = 3 * n
        /\ \A i \in 1..n :
               /\ IsPrefix(<<"  // ">> \o displays[i].device_string, ConfigLines[3 * i - 2])
               /\ ConfigLines[3 * i - 1] = KeyLine(SimpleId(i), "your_custom_name")
               /\ ConfigLines[3 * i] = <<>>
        /\ Option1Lines = [i \in 1..n |-> KeyLine(SimpleId(i), "folder_name")]
        /\ Option2Lines =
               [i \in 1..n |-> KeyLine(<<ToString(displays[i].width), "x",
                                         ToString(displays[i].height)>>, "folder_name")]
        /\ Option3Lines =
               [i \in 1..n |-> KeyLine(<<"x", ToString(displays[i].position_x), "_y",
                                         ToString(displays[i].position_y)>>, "folder_name")]
        /\ Option4Lines = [i \in 1..n |-> KeyLine(displays[i].device_string, "folder_name")]

\* a report of two different displays, the second with the resolution and
\* the monitor name of the first
C7_Witness ==
    /\ report_calls = 1
    /\ Len(displays) = 2
    /\ displays[1].width = displays[2].width
    /\ displays[1].height = displays[2].height
    /\ displays[1].device_string = displays[2].device_string
    /\ displays[1].device_id # displays[2].device_id
    /\ Len(Option2Lines) = 2

OrientationClass(width, height) ==
    CASE width > height -> "Landscape"
      [] width < height -> "Portrait"
      [] width = height -> "Square"

Lowercase(class) ==
    CASE class = "Landscape" -> "landscape"
      [] class = "Portrait" -> "portrait"
      [] class = "Square" -> "square"
      [] OTHER -> "?"

\* C8: once the report is printed, the class shown for each display in the
\* detail block is Landscape, Portrait or Square by width > height,
\* width < height, width = height alone, whatever its rotation code, and the
\* folder suggestions and the configuration snippet show the same class.
C8_OrientationFromGeometry ==
    (report_calls = 1) =>
        /\ Len(DetailLines) = 19 * Len(displays)
        /\ \A i \in 1..Len(displays) :
               LET class == OrientationClass(displays[i].width, displays[i].height)
                   detail == DetailLines[19 * i - 11]
                   folder == FolderLines[4 * i - 3]
                   config == ConfigLines[3 * i - 2]
               IN /\ IsPrefix(<<"  Orientation:        ", class, " (">>, detail)
                  /\ SubSeq(folder, Len(folder) - 2, Len(folder))
                         = <<" ", Lowercase(class), ")">>
                  /\ SubSeq(config, Len(config) - 2, Len(config))
                         = <<" ", Lowercase(class), ")">>
                  /\ Lowercase(detail[2]) = folder[Len(folder) - 1]
                  /\ folder[Len(folder) - 1] = config[Len(config) - 1]

\* a report of a display wider than high whose rotation code is 1 (portrait)
C8_Witness ==
    /\ report_calls = 1
    /\ \E i \in 1..Len(displays) :
           /\ displays[i].width > displays[i].height
           /\ displays[i].orientation = 1
           /\ DetailLines[19 * i - 11]
                  = <<"  Orientation:        ", "Landscape", " (", "Portrait (90 deg)", ")">>

====
